---- MODULE Spec2Model ----
(***************************************************************************)
(* Model of the command bus of rustui: the fan-in merge of cmds.rs, the    *)
(* pipewire worker and its startup/shutdown handshake of pwrap.rs, and the *)
(* App state machine of app.rs.                                            *)
(*                                                                         *)
(* Channels are FIFO queues.  A std::sync::mpsc channel is a queue plus    *)
(* "are there senders left" (open) and "is the receiver left"; the         *)
(* pipewire channel is a queue that the event loop drains.                 *)
(***************************************************************************)
EXTENDS Integers, Sequences, FiniteSets, TLC

(* ---------------------------------------------------------------- bounds *)
\* messages each test producer sends at most (MergeSpec)
MaxMsgs == 2
\* terminal events the input relay reads at most (Spec)
MaxKeys == 2
\* length of the mailbox content spawn() is tried on (SpawnSpec)
MaxFirst == 2

(* ------------------------------------------------------------------ Cmd  *)
\* cmds.rs Cmd: a command is <<tag, a, b>>; a and b are the payload.
Terminate == <<"Terminate", "", "">>
IsUp == <<"IsUp", "", "">>
IsDown == <<"IsDown", "", "">>
KeyPress(code, kind) == <<"KeyPress", code, kind>>
Msg(s) == <<"Msg", s, "">>
\* no command: the value of a moved-out binding
NoCmd == <<"", "", "">>

VARIABLES
    inq,        \* inq[i]: queue of the channel whose receiver is recv_i of combine_receivers
    open,       \* open[i]: some sender of input channel i is still alive
    fpc,        \* fpc[i]: forwarding thread i: "recv", "send", "done", "panicked"
    hold,       \* hold[i]: the item thread i took and has not yet sent (r)
    out,        \* queue of the merged channel (send, recv) of combine_receivers
    outRecv,    \* the merged Receiver is still alive
    sentHist,   \* history: sentHist[i] is everything ever sent on input channel i
    sendOrder,  \* history: every message sent on an input channel, in the order of the sends
    received,   \* history: everything the consumer took from the merged receiver
    closedSeen, \* history: the consumer's recv() returned Err (disconnected)
    wpc,        \* worker thread: "unstarted", "new", "attach", "sendUp", "run", "done", "panicked"
    pwq,        \* queue of the pipewire channel (pw_sender, pw_receiver)
    batch,      \* messages the attached receiver drained and still hands to the callback
    quit,       \* mainloop.quit() was called
    spc,        \* main thread: "start", "spawnWait", "spawnOk", "spawnErr", "loop", "exited", "panicked"
    firstObs,   \* history: what spawn()'s main_receiver.recv() returned
    spawnRes,   \* what spawn() returned: <<"Ok", "">> or <<"Err", text>>; <<"none", "">> before
    rpc,        \* input relay thread: "unstarted", "read", "done", "panicked"
    nread,      \* terminal events read so far
    app,        \* the App struct
    termSent,   \* history: number of Terminate commands sent on pw_send
    qHandled,   \* history: App::exit() was called (the quit key)
    lastUpd     \* history: how the last App::update() ended: "none", "Cmd", "Timeout", "Disconnected"

vars == <<inq, open, fpc, hold, out, outRecv, sentHist, sendOrder, received, closedSeen,
          wpc, pwq, batch, quit, spc, firstObs, spawnRes, rpc, nread, app, termSent, qHandled,
          lastUpd>>

mergeVars == <<inq, open, fpc, hold, out, outRecv, sentHist, sendOrder, received, closedSeen>>
workerVars == <<wpc, pwq, batch, quit>>
appVars == <<spc, firstObs, spawnRes, rpc, nread, app, termSent, qHandled, lastUpd>>

Inputs == {1, 2}

(* ------------------------------------------------- cmds.rs: the merge    *)
\* The process lives until main returns or the main thread panics; its other
\* threads stop with it.
ProcessAlive == spc \notin {"exited", "panicked"}

\* A forwarding thread has ended: its clone of `send` is dropped.
Ended(i) == fpc[i] \in {"done", "panicked"}

\* A merged channel that closes as soon as one forwarding thread ends.
DisconnectedAny == out = <<>> /\ (Ended(1) \/ Ended(2))

\* The merged channel has no sender left and nothing queued: recv() fails.
Disconnected == out = <<>> /\ Ended(1) /\ Ended(2)

\* A forwarding thread that returns as soon as its sender is gone, leaving
\* what is still queued.
ForwardRecvEarlyExit(i) ==
    /\ ProcessAlive
    /\ fpc[i] = "recv"
    /\ IF ~open[i]
       THEN /\ fpc' = [fpc EXCEPT ![i] = "done"]
            /\ UNCHANGED <<hold, inq>>
       ELSE /\ inq[i] # <<>>
            /\ hold' = [hold EXCEPT ![i] = Head(inq[i])]
            /\ inq' = [inq EXCEPT ![i] = Tail(inq[i])]
            /\ fpc' = [fpc EXCEPT ![i] = "send"]
    /\ UNCHANGED <<open, out, outRecv, sentHist, sendOrder, received, closedSeen>>
    /\ UNCHANGED <<wpc, pwq, batch, quit>>
    /\ UNCHANGED <<spc, firstObs, spawnRes, rpc, nread, app, termSent, qHandled, lastUpd>>

\* `for r in recv_i`: the iterator takes the next item, or ends when the
\* channel is empty and every sender is gone.
ForwardRecv(i) ==
    /\ ProcessAlive
    /\ fpc[i] = "recv"
    /\ IF inq[i] # <<>>
       THEN /\ hold' = [hold EXCEPT ![i] = Head(inq[i])]
            /\ inq' = [inq EXCEPT ![i] = Tail(inq[i])]
            /\ fpc' = [fpc EXCEPT ![i] = "send"]
       ELSE /\ ~open[i]
            /\ fpc' = [fpc EXCEPT ![i] = "done"]
            /\ UNCHANGED <<hold, inq>>
    /\ UNCHANGED <<open, out, outRecv, sentHist, sendOrder, received, closedSeen>>
    /\ UNCHANGED workerVars
    /\ UNCHANGED appVars

\* A forwarding thread that puts its item at the front of the merged queue.
ForwardSendFront(i) ==
    /\ ProcessAlive
    /\ fpc[i] = "send"
    /\ outRecv
    /\ out' = <<hold[i]>> \o out
    /\ fpc' = [fpc EXCEPT ![i] = "recv"]
    /\ hold' = [hold EXCEPT ![i] = NoCmd]
    /\ UNCHANGED <<inq, open, outRecv, sentHist, sendOrder, received, closedSeen>>
    /\ UNCHANGED <<wpc, pwq, batch, quit>>
    /\ UNCHANGED <<spc, firstObs, spawnRes, rpc, nread, app, termSent, qHandled, lastUpd>>

\* A forwarding thread that ignores a failed send (`let _ = send.send(r)`)
\* and goes on with the next item.
ForwardSendIgnore(i) ==
    /\ ProcessAlive
    /\ fpc[i] = "send"
    /\ out' = IF outRecv THEN Append(out, hold[i]) ELSE out
    /\ fpc' = [fpc EXCEPT ![i] = "recv"]
    /\ hold' = [hold EXCEPT ![i] = NoCmd]
    /\ UNCHANGED <<inq, open, outRecv, sentHist, sendOrder, received, closedSeen>>
    /\ UNCHANGED <<wpc, pwq, batch, quit>>
    /\ UNCHANGED <<spc, firstObs, spawnRes, rpc, nread, app, termSent, qHandled, lastUpd>>

\* A forwarding thread that returns after the first item it has sent.
ForwardSendOnce(i) ==
    /\ ProcessAlive
    /\ fpc[i] = "send"
    /\ IF outRecv
       THEN /\ out' = Append(out, hold[i])
            /\ fpc' = [fpc EXCEPT ![i] = "done"]
       ELSE /\ fpc' = [fpc EXCEPT ![i] = "panicked"]
            /\ UNCHANGED out
    /\ hold' = [hold EXCEPT ![i] = NoCmd]
    /\ UNCHANGED <<inq, open, outRecv, sentHist, sendOrder, received, closedSeen>>
    /\ UNCHANGED <<wpc, pwq, batch, quit>>
    /\ UNCHANGED <<spc, firstObs, spawnRes, rpc, nread, app, termSent, qHandled, lastUpd>>

\* `send.send(r).unwrap()`: the send fails, and unwrap panics, only when the
\* merged receiver is gone.
ForwardSend(i) ==
    /\ ProcessAlive
    /\ fpc[i] = "send"
    /\ IF outRecv
       THEN /\ out' = Append(out, hold[i])
            /\ fpc' = [fpc EXCEPT ![i] = "recv"]
       ELSE /\ fpc' = [fpc EXCEPT ![i] = "panicked"]
            /\ UNCHANGED out
    /\ hold' = [hold EXCEPT ![i] = NoCmd]
    /\ UNCHANGED <<inq, open, outRecv, sentHist, sendOrder, received, closedSeen>>
    /\ UNCHANGED workerVars
    /\ UNCHANGED appVars

(* --------------------------- cmds.rs tests: producers and the consumer   *)
ProducerTag(i) == IF i = 1 THEN "A" ELSE "B"
ProducerMsg(i, n) == <<"Msg", ProducerTag(i), ToString(n)>>

\* s1.send(..) / s2.send(..)
ProducerSend(i) ==
    /\ open[i]
    /\ Len(sentHist[i]) < MaxMsgs
    /\ LET m == ProducerMsg(i, Len(sentHist[i]) + 1) IN
       /\ inq' = [inq EXCEPT ![i] = Append(inq[i], m)]
       /\ sentHist' = [sentHist EXCEPT ![i] = Append(sentHist[i], m)]
       /\ sendOrder' = Append(sendOrder, m)
    /\ UNCHANGED <<open, fpc, hold, out, outRecv, received, closedSeen>>
    /\ UNCHANGED workerVars
    /\ UNCHANGED appVars

\* the producer's Sender goes out of scope
ProducerDrop(i) ==
    /\ open[i]
    /\ open' = [open EXCEPT ![i] = FALSE]
    /\ UNCHANGED <<inq, fpc, hold, out, outRecv, sentHist, sendOrder, received, closedSeen>>
    /\ UNCHANGED workerVars
    /\ UNCHANGED appVars

\* A receiver that hands out the newest queued message instead of the oldest.
ConsumerRecvLast ==
    /\ outRecv
    /\ out # <<>>
    /\ received' = Append(received, out[Len(out)])
    /\ out' = SubSeq(out, 1, Len(out) - 1)
    /\ UNCHANGED <<inq, open, fpc, hold, outRecv, sentHist, sendOrder, closedSeen>>
    /\ UNCHANGED <<wpc, pwq, batch, quit>>
    /\ UNCHANGED <<spc, firstObs, spawnRes, rpc, nread, app, termSent, qHandled, lastUpd>>

\* rec.recv() returning Ok
ConsumerRecv ==
    /\ outRecv
    /\ out # <<>>
    /\ received' = Append(received, Head(out))
    /\ out' = Tail(out)
    /\ UNCHANGED <<inq, open, fpc, hold, outRecv, sentHist, sendOrder, closedSeen>>
    /\ UNCHANGED workerVars
    /\ UNCHANGED appVars

\* rec.recv() returning Err: empty and no sender left
ConsumerRecvErr ==
    /\ outRecv
    /\ Disconnected
    /\ ~closedSeen
    /\ closedSeen' = TRUE
    /\ UNCHANGED <<inq, open, fpc, hold, out, outRecv, sentHist, sendOrder, received>>
    /\ UNCHANGED workerVars
    /\ UNCHANGED appVars

\* the merged Receiver goes out of scope
ConsumerDrop ==
    /\ outRecv
    /\ outRecv' = FALSE
    /\ UNCHANGED <<inq, open, fpc, hold, out, sentHist, sendOrder, received, closedSeen>>
    /\ UNCHANGED workerVars
    /\ UNCHANGED appVars

(* ------------------------------------------- pwrap.rs: the worker thread *)
\* The receiver of input channel 1 (main_receiver) is alive: spawn() holds it
\* until it returns, App::new() hands it to the first forwarding thread.
MainReceiverAlive == spc \in {"spawnWait", "spawnOk"} \/ fpc[1] \in {"recv", "send"}

\* send.send(c) of the worker on the mailbox (main_sender): queued when the
\* receiver is alive, an Err otherwise.
MailboxSend(c) ==
    /\ inq' = [inq EXCEPT ![1] = IF MainReceiverAlive THEN Append(inq[1], c) ELSE inq[1]]
    /\ sentHist' = [sentHist EXCEPT ![1] = IF MainReceiverAlive THEN Append(sentHist[1], c)
                                                                 ELSE sentHist[1]]
    /\ sendOrder' = IF MainReceiverAlive THEN Append(sendOrder, c) ELSE sendOrder

\* The Err(String) of a Pipewire::new() that fails.
InitError == "connect failed"

\* Pipewire::new().expect(..): the subsystem comes up, or the worker thread
\* panics, which drops main_sender.
WorkerNew ==
    /\ ProcessAlive
    /\ wpc = "new"
    /\ \E ok \in BOOLEAN :
         IF ok THEN wpc' = "attach" /\ UNCHANGED open
               ELSE wpc' = "panicked" /\ open' = [open EXCEPT ![1] = FALSE]
    /\ UNCHANGED <<pwq, batch, quit>>
    /\ UNCHANGED <<inq, fpc, hold, out, outRecv, sentHist, sendOrder, received, closedSeen>>
    /\ UNCHANGED appVars

\* recv.attach(pw.ml.loop_(), callback)
WorkerAttach ==
    /\ ProcessAlive
    /\ wpc = "attach"
    /\ wpc' = "sendUp"
    /\ UNCHANGED <<pwq, batch, quit>>
    /\ UNCHANGED mergeVars
    /\ UNCHANGED appVars

\* let _ = send.send(Cmd::IsUp); then pw.ml.run() is entered
WorkerSendIsUp ==
    /\ ProcessAlive
    /\ wpc = "sendUp"
    /\ MailboxSend(IsUp)
    /\ wpc' = "run"
    /\ UNCHANGED <<pwq, batch, quit>>
    /\ UNCHANGED <<open, fpc, hold, out, outRecv, received, closedSeen>>
    /\ UNCHANGED appVars

\* One iteration of the event loop finds the channel readable: the attached
\* receiver takes the whole queue (holding the channel's lock) to hand each
\* message to the callback.
WorkerLoopIter ==
    /\ ProcessAlive
    /\ wpc = "run"
    /\ ~quit
    /\ batch = <<>>
    /\ pwq # <<>>
    /\ batch' = pwq
    /\ pwq' = <<>>
    /\ UNCHANGED <<wpc, quit>>
    /\ UNCHANGED mergeVars
    /\ UNCHANGED appVars

\* The callback on one message, answering a Terminate with `reply`.
WorkerCallbackWith(reply) ==
    /\ ProcessAlive
    /\ wpc = "run"
    /\ batch # <<>>
    /\ IF Head(batch) = Terminate
       THEN /\ quit' = TRUE
            /\ MailboxSend(reply)
            /\ IF MainReceiverAlive
               THEN /\ batch' = Tail(batch)
                    /\ UNCHANGED <<wpc, open>>
               ELSE /\ wpc' = "panicked"
                    /\ batch' = <<>>
                    /\ open' = [open EXCEPT ![1] = FALSE]
       ELSE /\ batch' = Tail(batch)
            /\ UNCHANGED <<quit, wpc, open, inq, sentHist, sendOrder>>
    /\ UNCHANGED pwq
    /\ UNCHANGED <<fpc, hold, out, outRecv, received, closedSeen>>
    /\ UNCHANGED appVars

\* A callback that quits the loop on Terminate without reporting IsDown.
WorkerCallbackSilent ==
    /\ ProcessAlive
    /\ wpc = "run"
    /\ batch # <<>>
    /\ quit' = (quit \/ Head(batch) = Terminate)
    /\ batch' = Tail(batch)
    /\ UNCHANGED <<wpc, pwq>>
    /\ UNCHANGED <<inq, open, fpc, hold, out, outRecv, sentHist, sendOrder, received, closedSeen>>
    /\ UNCHANGED <<spc, firstObs, spawnRes, rpc, nread, app, termSent, qHandled, lastUpd>>

\* A callback that answers with the wrong variant.
WorkerCallbackIsUp == WorkerCallbackWith(IsUp)

\* The callback: Terminate => mainloop.quit() and
\* send.send(Cmd::IsDown).unwrap(); anything else => ().
WorkerCallback == WorkerCallbackWith(IsDown)

\* A worker that reports IsDown once more after run() has returned.
WorkerRunReturnDown ==
    /\ ProcessAlive
    /\ wpc = "run"
    /\ quit
    /\ batch = <<>>
    /\ wpc' = "done"
    /\ MailboxSend(IsDown)
    /\ open' = [open EXCEPT ![1] = FALSE]
    /\ UNCHANGED <<pwq, batch, quit>>
    /\ UNCHANGED <<fpc, hold, out, outRecv, received, closedSeen>>
    /\ UNCHANGED appVars

\* pw.ml.run() returns once quit was requested and the iteration is over;
\* worker() returns and drops send and the attached receiver with its clone.
WorkerRunReturn ==
    /\ ProcessAlive
    /\ wpc = "run"
    /\ quit
    /\ batch = <<>>
    /\ wpc' = "done"
    /\ open' = [open EXCEPT ![1] = FALSE]
    /\ UNCHANGED <<pwq, batch, quit>>
    /\ UNCHANGED <<inq, fpc, hold, out, outRecv, sentHist, sendOrder, received, closedSeen>>
    /\ UNCHANGED appVars

(* --------------------------------------------- pwrap.rs: Pipewire::spawn *)
\* schannel(), pchannel(), thread::spawn(worker)
SpawnStart ==
    /\ spc = "start"
    /\ wpc = "unstarted"
    /\ spc' = "spawnWait"
    /\ wpc' = "new"
    /\ UNCHANGED <<pwq, batch, quit>>
    /\ UNCHANGED mergeVars
    /\ UNCHANGED <<firstObs, spawnRes, rpc, nread, app, termSent, qHandled, lastUpd>>

\* Err(e) of recv(): the channel is empty and every sender is gone.
RecvError == <<"RecvError", "", "">>

\* A match whose Msg arm is taken for success.
SpawnMatchMsgOk(r) ==
    IF r = IsUp \/ r[1] = "Msg" THEN <<"Ok", "">>
    ELSE IF r = RecvError THEN <<"Err", "Receiver error">>
    ELSE <<"Err", "Unexpected message from worker">>

\* A match that does not wait for IsUp: a closed mailbox is taken for success.
SpawnMatchClosedOk(r) ==
    IF r = IsUp \/ r = RecvError THEN <<"Ok", "">>
    ELSE IF r[1] = "Msg" THEN <<"Err", r[2]>>
    ELSE <<"Err", "Unexpected message from worker">>

\* The match on main_receiver.recv(), r being the command received or
\* RecvError: the Result<(), String> it gives.
SpawnMatch(r) ==
    IF r = IsUp THEN <<"Ok", "">>
    ELSE IF r[1] = "Msg" THEN <<"Err", r[2]>>
    ELSE IF r = RecvError THEN <<"Err", "Receiver error">>
    ELSE <<"Err", "Unexpected message from worker">>

\* main_receiver.recv() blocks until a message is there or no sender is left;
\* `?` returns the Err, otherwise Ok((pw_sender, main_receiver)) is returned.
SpawnRecv ==
    /\ spc = "spawnWait"
    /\ \/ /\ inq[1] # <<>>
          /\ firstObs' = Head(inq[1])
          /\ inq' = [inq EXCEPT ![1] = Tail(inq[1])]
       \/ /\ inq[1] = <<>>
          /\ ~open[1]
          /\ firstObs' = RecvError
          /\ UNCHANGED inq
    /\ spawnRes' = SpawnMatch(firstObs')
    /\ spc' = IF spawnRes'[1] = "Ok" THEN "spawnOk" ELSE "spawnErr"
    /\ UNCHANGED <<open, fpc, hold, out, outRecv, sentHist, sendOrder, received, closedSeen>>
    /\ UNCHANGED workerVars
    /\ UNCHANGED <<rpc, nread, app, termSent, qHandled, lastUpd>>

(* ----------------------------------- app.rs: terminal_eventthread (relay) *)
KeyCodes == {"q", "i", "m", "z", "Left", "Right", "x"}
\* What event::read() can return: key events of a kind, and other events.
TermEvents == {<<"Key", c, "Press">> : c \in KeyCodes}
              \cup {<<"Key", "q", "Release">>, <<"Key", "Right", "Repeat">>}
              \cup {<<"Resize", "", "">>}

\* The receiver of input channel 2 (ui_recv) is held by the second forwarding thread.
UiReceiverAlive == fpc[2] \in {"recv", "send"}

\* event::read() returned Ok(ev); `if let Event::Key(key_event) = ev` sends
\* Cmd::KeyPress(key_event), and unwrap panics when ui_recv is gone.
RelayRead ==
    /\ ProcessAlive
    /\ rpc = "read"
    /\ nread < MaxKeys
    /\ nread' = nread + 1
    /\ \E ev \in TermEvents :
         IF ev[1] = "Key"
         THEN IF UiReceiverAlive
              THEN /\ inq' = [inq EXCEPT ![2] = Append(inq[2], KeyPress(ev[2], ev[3]))]
                   /\ sentHist' = [sentHist EXCEPT ![2] =
                                      Append(sentHist[2], KeyPress(ev[2], ev[3]))]
                   /\ sendOrder' = Append(sendOrder, KeyPress(ev[2], ev[3]))
                   /\ UNCHANGED <<rpc, open>>
              ELSE /\ rpc' = "panicked"
                   /\ open' = [open EXCEPT ![2] = FALSE]
                   /\ UNCHANGED <<inq, sentHist, sendOrder>>
         ELSE UNCHANGED <<inq, sentHist, sendOrder, rpc, open>>
    /\ UNCHANGED <<fpc, hold, out, outRecv, received, closedSeen>>
    /\ UNCHANGED workerVars
    /\ UNCHANGED <<spc, firstObs, spawnRes, app, termSent, qHandled, lastUpd>>

\* event::read() returned Err: break, the thread ends and drops sendchannel.
RelayReadErr ==
    /\ ProcessAlive
    /\ rpc = "read"
    /\ rpc' = "done"
    /\ open' = [open EXCEPT ![2] = FALSE]
    /\ UNCHANGED <<inq, fpc, hold, out, outRecv, sentHist, sendOrder, received, closedSeen>>
    /\ UNCHANGED workerVars
    /\ UNCHANGED <<spc, firstObs, spawnRes, nread, app, termSent, qHandled, lastUpd>>

(* ------------------------------------------------------- app.rs: the App *)
U8Max == 255

\* App::new()'s struct literal
AppInit == [counter |-> 1, idle |-> TRUE, want_exit |-> TRUE, exit |-> FALSE,
            sources |-> <<>>, messages |-> <<"App initialized">>]

\* What handling a command does: the App afterwards, the commands sent on
\* pw_send, whether the thread panicked, whether App::exit() ran.
Outcome(a, snd, pan, q) == [app |-> a, send |-> snd, panic |-> pan, q |-> q]

\* self.counter += 1 on a u8: at 255 the addition overflows, which panics in
\* a build with overflow checks and wraps in one without.
increment_counter(a) ==
    IF a.counter < U8Max
    THEN {Outcome([a EXCEPT !.counter = a.counter + 1], <<>>, FALSE, FALSE)}
    ELSE {Outcome(a, <<>>, TRUE, FALSE),
          Outcome([a EXCEPT !.counter = 0], <<>>, FALSE, FALSE)}

decrement_counter(a) ==
    IF a.counter > 0
    THEN {Outcome([a EXCEPT !.counter = a.counter - 1], <<>>, FALSE, FALSE)}
    ELSE {Outcome(a, <<>>, FALSE, FALSE)}

\* An exit() that sets the exit flag itself.
exitNow(a) == {Outcome([a EXCEPT !.want_exit = TRUE, !.exit = TRUE], <<Terminate>>, FALSE, TRUE)}

\* App::exit(): self.pw_send.send(Cmd::Terminate); self.want_exit = true
exit(a) == {Outcome([a EXCEPT !.want_exit = TRUE], <<Terminate>>, FALSE, TRUE)}

\* match key_event.code (the kind of the key event is not looked at)
handle_key_event(a, code) ==
    CASE code = "q" -> exit(a)
      [] code = "i" -> {Outcome([a EXCEPT !.idle = ~a.idle], <<>>, FALSE, FALSE)}
      [] code = "m" -> {Outcome([a EXCEPT !.messages = Append(a.messages, "Pressed a key")],
                                <<>>, FALSE, FALSE)}
      [] code = "z" -> {Outcome(a, <<Terminate>>, FALSE, FALSE)}
      [] code = "Left" -> decrement_counter(a)
      [] code = "Right" -> increment_counter(a)
      [] OTHER -> {Outcome(a, <<>>, FALSE, FALSE)}

\* A handle_cmd whose IsUp arm logs a line.
handle_cmdIsUpLogs(a, cmd) ==
    CASE cmd = Terminate -> {Outcome(a, <<>>, FALSE, FALSE)}
      [] cmd = IsUp -> {Outcome([a EXCEPT !.messages = Append(a.messages, "Pipewire is up")],
                                <<>>, FALSE, FALSE)}
      [] cmd = IsDown ->
           IF a.want_exit
           THEN {Outcome([a EXCEPT !.messages = Append(a.messages, "Pipewire went down properly"),
                                   !.exit = TRUE], <<>>, FALSE, FALSE)}
           ELSE {Outcome(a, <<>>, TRUE, FALSE)}
      [] cmd[1] = "KeyPress" -> handle_key_event(a, cmd[2])
      [] cmd[1] = "Msg" -> {Outcome([a EXCEPT !.messages = Append(a.messages, cmd[2])],
                                    <<>>, FALSE, FALSE)}

\* match cmd
handle_cmd(a, cmd) ==
    CASE cmd = Terminate -> {Outcome(a, <<>>, FALSE, FALSE)}
      [] cmd = IsUp -> {Outcome(a, <<>>, FALSE, FALSE)}
      [] cmd = IsDown ->
           IF a.want_exit
           THEN {Outcome([a EXCEPT !.messages = Append(a.messages, "Pipewire went down properly"),
                                   !.exit = TRUE], <<>>, FALSE, FALSE)}
           ELSE {Outcome(a, <<>>, TRUE, FALSE)}
      [] cmd[1] = "KeyPress" -> handle_key_event(a, cmd[2])
      [] cmd[1] = "Msg" -> {Outcome([a EXCEPT !.messages = Append(a.messages, cmd[2])],
                                    <<>>, FALSE, FALSE)}

\* App::new(): Pipewire::spawn().expect(..) panics on Err; on Ok the relay
\* thread is started and combine_receivers(pw_recv, ui_recv) starts the two
\* forwarding threads.
AppNew ==
    /\ \/ /\ spc = "spawnOk"
          /\ spc' = "loop"
          /\ rpc' = "read"
          /\ fpc' = [i \in Inputs |-> "recv"]
          /\ app' = AppInit
       \/ /\ spc = "spawnErr"
          /\ spc' = "panicked"
          /\ UNCHANGED <<rpc, fpc, app>>
    /\ UNCHANGED <<inq, open, hold, out, outRecv, sentHist, sendOrder, received, closedSeen>>
    /\ UNCHANGED workerVars
    /\ UNCHANGED <<firstObs, spawnRes, nread, termSent, qHandled, lastUpd>>

\* One pass of the while loop of App::run(): update() then draw.
\* recv_timeout gives the next command of the merged stream to handle_cmd, or
\* times out (Ok, nothing changes), or finds the stream disconnected (panic).
\* A send on pw_send waits for the channel's lock while the worker drains.
AppUpdate ==
    /\ spc = "loop"
    /\ ~app.exit
    /\ IF out # <<>>
       THEN /\ \E o \in handle_cmd(app, Head(out)) :
                 /\ o.send = <<>> \/ batch = <<>>
                 /\ app' = o.app
                 /\ pwq' = pwq \o o.send
                 /\ termSent' = termSent + Len(o.send)
                 /\ qHandled' = (qHandled \/ o.q)
                 /\ spc' = IF o.panic THEN "panicked" ELSE spc
            /\ received' = Append(received, Head(out))
            /\ out' = Tail(out)
            /\ lastUpd' = "Cmd"
       ELSE /\ lastUpd' = IF Disconnected THEN "Disconnected" ELSE "Timeout"
            /\ spc' = IF Disconnected THEN "panicked" ELSE spc
            /\ UNCHANGED <<app, pwq, termSent, qHandled, received, out>>
    /\ UNCHANGED <<inq, open, fpc, hold, outRecv, sentHist, sendOrder, closedSeen>>
    /\ UNCHANGED <<wpc, batch, quit>>
    /\ UNCHANGED <<firstObs, spawnRes, rpc, nread>>

\* `while !self.exit` is left: restore the terminal, print the messages,
\* return Ok(()); main returns and the process ends.
AppLoopExit ==
    /\ spc = "loop"
    /\ app.exit
    /\ spc' = "exited"
    /\ UNCHANGED mergeVars
    /\ UNCHANGED workerVars
    /\ UNCHANGED <<firstObs, spawnRes, rpc, nread, app, termSent, qHandled, lastUpd>>

(* ------------------------------------------------------- specifications  *)
\* What is the same at the start of every specification.
Fresh ==
    /\ out = <<>>
    /\ outRecv = TRUE
    /\ received = <<>>
    /\ closedSeen = FALSE
    /\ pwq = <<>>
    /\ batch = <<>>
    /\ quit = FALSE
    /\ firstObs = NoCmd
    /\ spawnRes = <<"none", "">>
    /\ rpc = "unstarted"
    /\ nread = 0
    /\ app = AppInit
    /\ termSent = 0
    /\ qHandled = FALSE
    /\ lastUpd = "none"

\* main() is about to call App::new().
Init ==
    /\ Fresh
    /\ inq = [i \in Inputs |-> <<>>]
    /\ sentHist = [i \in Inputs |-> <<>>]
    /\ sendOrder = <<>>
    /\ open = [i \in Inputs |-> TRUE]
    /\ hold = [i \in Inputs |-> NoCmd]
    /\ fpc = [i \in Inputs |-> "unstarted"]
    /\ wpc = "unstarted"
    /\ spc = "start"

Next ==
    \/ SpawnStart
    \/ WorkerNew
    \/ WorkerAttach
    \/ WorkerSendIsUp
    \/ SpawnRecv
    \/ AppNew
    \/ RelayRead
    \/ RelayReadErr
    \/ \E i \in Inputs : ForwardRecv(i)
    \/ \E i \in Inputs : ForwardSend(i)
    \/ AppUpdate
    \/ AppLoopExit
    \/ WorkerLoopIter
    \/ WorkerCallback
    \/ WorkerRunReturn

Spec == Init /\ [][Next]_vars

\* The program with the worker's event loop, the forwarding thread of the
\* mailbox and the App loop scheduled again and again.
FairSpec ==
    /\ Init
    /\ [][Next]_vars
    /\ WF_vars(WorkerLoopIter)
    /\ WF_vars(WorkerCallback)
    /\ WF_vars(WorkerRunReturn)
    /\ WF_vars(ForwardRecv(1))
    /\ WF_vars(ForwardSend(1))
    /\ WF_vars(AppUpdate)

\* combine_receivers(r1, r2) has returned in a test: both threads are spawned.
MergeInit ==
    /\ Fresh
    /\ inq = [i \in Inputs |-> <<>>]
    /\ sentHist = [i \in Inputs |-> <<>>]
    /\ sendOrder = <<>>
    /\ open = [i \in Inputs |-> TRUE]
    /\ hold = [i \in Inputs |-> NoCmd]
    /\ fpc = [i \in Inputs |-> "recv"]
    /\ wpc = "unstarted"
    /\ spc = "start"

MergeNext ==
    \/ \E i \in Inputs : ProducerSend(i)
    \/ \E i \in Inputs : ProducerDrop(i)
    \/ \E i \in Inputs : ForwardRecv(i)
    \/ \E i \in Inputs : ForwardSend(i)
    \/ ConsumerRecv
    \/ ConsumerRecvErr
    \/ ConsumerDrop

MergeSpec == MergeInit /\ [][MergeNext]_vars

\* What the mailbox may hold when spawn() looks at it (SpawnSpec).
FirstCmds == {Terminate, IsUp, IsDown, KeyPress("q", "Press"), Msg("connect failed")}

RECURSIVE SeqsUpTo(_, _)
SeqsUpTo(S, n) ==
    IF n = 0 THEN {<<>>}
    ELSE LET shorter == SeqsUpTo(S, n - 1) IN
         shorter \cup {Append(q, x) : q \in shorter, x \in S}

\* spawn() is blocked in main_receiver.recv(); the mailbox holds any short
\* sequence of commands, and its senders are alive or all dropped.
SpawnInit ==
    /\ Fresh
    /\ \E q \in SeqsUpTo(FirstCmds, MaxFirst) :
         /\ inq = [i \in Inputs |-> IF i = 1 THEN q ELSE <<>>]
         /\ sentHist = [i \in Inputs |-> IF i = 1 THEN q ELSE <<>>]
         /\ sendOrder = q
    /\ open \in [Inputs -> BOOLEAN]
    /\ open[2]
    /\ hold = [i \in Inputs |-> NoCmd]
    /\ fpc = [i \in Inputs |-> "unstarted"]
    /\ wpc = IF open[1] THEN "run" ELSE "done"
    /\ spc = "spawnWait"

SpawnNext ==
    \/ SpawnRecv
    \/ AppNew

SpawnSpec == SpawnInit /\ [][SpawnNext]_vars

\* The merge with a consumer that keeps the merged receiver and keeps
\* receiving, every thread being scheduled again and again.
MergeFairNext ==
    \/ \E i \in Inputs : ProducerSend(i)
    \/ \E i \in Inputs : ProducerDrop(i)
    \/ \E i \in Inputs : ForwardRecv(i)
    \/ \E i \in Inputs : ForwardSend(i)
    \/ ConsumerRecv
    \/ ConsumerRecvErr

MergeFairSpec ==
    /\ MergeInit
    /\ [][MergeFairNext]_vars
    /\ \A i \in Inputs : WF_vars(ForwardRecv(i)) /\ WF_vars(ForwardSend(i))
    /\ WF_vars(ConsumerRecv)
    /\ WF_vars(ConsumerRecvErr)

(* ------------------------------- cmds.rs: combine_multiple_receivers     *)
\* producers of the N-way merge at most (MultiSpec)
MaxN == 3
\* messages sent in all on the inputs of the N-way merge at most (MultiSpec)
MaxTotal == 3

\* In MultiSpec the channels are numbered: 1..N are the producers' channels
\* (recvs[0..N-1]), N + n is the channel that the call on the first n
\* receivers returns, so 2N is the merged channel handed to the caller.  inq
\* holds every channel's queue; fpc and hold are indexed by the channel a
\* forwarding thread reads.  A wire <<c, d>> is a forwarding thread that
\* reads channel c and sends on channel d.
NetN == Cardinality(DOMAIN open)
NetOut == 2 * NetN

\* combine_receivers(recv_1, recv_2) returning channel o: its two threads.
CombineWires(recv_1, recv_2, o) == {<<recv_1, o>>, <<recv_2, o>>}

\* combine_multiple_receivers(recvs): the channel returned and the threads
\* started; fewer than two receivers panic.
RECURSIVE CombineMultiple(_, _)
CombineMultiple(recvs, base) ==
    LET n == Len(recvs) IN
    IF n < 2 THEN [panic |-> TRUE, ret |-> 0, wires |-> {}]
    ELSE IF n = 2
    THEN [panic |-> FALSE, ret |-> base + n,
          wires |-> CombineWires(recvs[2], recvs[1], base + n)]
    ELSE LET rest == CombineMultiple(SubSeq(recvs, 1, n - 1), base) IN
         [panic |-> rest.panic, ret |-> base + n,
          wires |-> rest.wires \cup CombineWires(recvs[n], rest.ret, base + n)]

NetWires == CombineMultiple([i \in 1..NetN |-> i], NetN).wires

\* the channel the thread reading channel c sends on
NetDest(c) == (CHOOSE w \in NetWires : w[1] = c)[2]

\* some sender of channel c is alive: the producer's, or a clone held by a
\* forwarding thread that has not ended
NetSendersAlive(c) ==
    IF c \in 1..NetN THEN open[c]
    ELSE \E w \in NetWires : w[2] = c /\ ~Ended(w[1])

\* the receiver of channel c is alive: the caller's, or the one moved into
\* the forwarding thread that reads c
NetReceiverAlive(c) ==
    IF c = NetOut THEN outRecv ELSE fpc[c] \in {"recv", "send"}

netUnchanged == <<out, outRecv, closedSeen, wpc, pwq, batch, quit, spc, firstObs, spawnRes,
                  rpc, nread, app, termSent, qHandled, lastUpd>>

\* A forwarding thread that takes the newest queued item instead of the oldest.
NetForwardRecvLast(c) ==
    /\ fpc[c] = "recv"
    /\ inq[c] # <<>>
    /\ hold' = [hold EXCEPT ![c] = inq[c][Len(inq[c])]]
    /\ inq' = [inq EXCEPT ![c] = SubSeq(inq[c], 1, Len(inq[c]) - 1)]
    /\ fpc' = [fpc EXCEPT ![c] = "send"]
    /\ UNCHANGED <<open, sentHist, sendOrder, received>>
    /\ UNCHANGED netUnchanged

\* `for r in recv_i` of a forwarding thread of the N-way merge
NetForwardRecv(c) ==
    /\ fpc[c] = "recv"
    /\ IF inq[c] # <<>>
       THEN /\ hold' = [hold EXCEPT ![c] = Head(inq[c])]
            /\ inq' = [inq EXCEPT ![c] = Tail(inq[c])]
            /\ fpc' = [fpc EXCEPT ![c] = "send"]
       ELSE /\ ~NetSendersAlive(c)
            /\ fpc' = [fpc EXCEPT ![c] = "done"]
            /\ UNCHANGED <<hold, inq>>
    /\ UNCHANGED <<open, sentHist, sendOrder, received>>
    /\ UNCHANGED netUnchanged

\* `send.send(r).unwrap()` of a forwarding thread of the N-way merge
NetForwardSend(c) ==
    /\ fpc[c] = "send"
    /\ IF NetReceiverAlive(NetDest(c))
       THEN /\ inq' = [inq EXCEPT ![NetDest(c)] = Append(inq[NetDest(c)], hold[c])]
            /\ fpc' = [fpc EXCEPT ![c] = "recv"]
       ELSE /\ fpc' = [fpc EXCEPT ![c] = "panicked"]
            /\ UNCHANGED inq
    /\ hold' = [hold EXCEPT ![c] = NoCmd]
    /\ UNCHANGED <<open, sentHist, sendOrder, received>>
    /\ UNCHANGED netUnchanged

\* the n-th message of producer i
NetMsg(i, n) == <<"Msg", ToString(i), ToString(n)>>

\* s.send(..) of test_combine_multiple
NetProducerSend(i) ==
    /\ open[i]
    /\ Len(sendOrder) < MaxTotal
    /\ LET m == NetMsg(i, Len(sentHist[i]) + 1) IN
       /\ inq' = [inq EXCEPT ![i] = Append(inq[i], m)]
       /\ sentHist' = [sentHist EXCEPT ![i] = Append(sentHist[i], m)]
       /\ sendOrder' = Append(sendOrder, m)
    /\ UNCHANGED <<open, fpc, hold, received>>
    /\ UNCHANGED netUnchanged

\* s goes out of scope at the end of its turn of `for s in senders`: the
\* senders are dropped in the order of the vector, each after what it sent
\* was received by combined.recv().
NetProducerDrop(i) ==
    /\ open[i]
    /\ \A j \in 1..(i - 1) : ~open[j]
    /\ SelectSeq(received, LAMBDA m : m[2] = ToString(i)) = sentHist[i]
    /\ open' = [open EXCEPT ![i] = FALSE]
    /\ UNCHANGED <<inq, fpc, hold, sentHist, sendOrder, received>>
    /\ UNCHANGED netUnchanged

\* combined.recv() returning Ok
NetConsumerRecv ==
    /\ outRecv
    /\ inq[NetOut] # <<>>
    /\ received' = Append(received, Head(inq[NetOut]))
    /\ inq' = [inq EXCEPT ![NetOut] = Tail(inq[NetOut])]
    /\ UNCHANGED <<open, fpc, hold, sentHist, sendOrder>>
    /\ UNCHANGED netUnchanged

\* combine_multiple_receivers(receivers) has returned for N channels.
MultiInit ==
    /\ Fresh
    /\ wpc = "unstarted"
    /\ spc = "start"
    /\ sendOrder = <<>>
    /\ \E n \in 2..MaxN :
         LET net == CombineMultiple([i \in 1..n |-> i], n)
             srcs == {w[1] : w \in net.wires}
         IN /\ ~net.panic
            /\ open = [i \in 1..n |-> TRUE]
            /\ sentHist = [i \in 1..n |-> <<>>]
            /\ inq = [c \in srcs \cup {net.ret} |-> <<>>]
            /\ fpc = [c \in srcs |-> "recv"]
            /\ hold = [c \in srcs |-> NoCmd]

MultiNext ==
    \/ \E i \in DOMAIN open : NetProducerSend(i)
    \/ \E i \in DOMAIN open : NetProducerDrop(i)
    \/ \E c \in DOMAIN fpc : NetForwardRecv(c)
    \/ \E c \in DOMAIN fpc : NetForwardSend(c)
    \/ NetConsumerRecv

MultiSpec == MultiInit /\ [][MultiNext]_vars

(* ------------------------------ app.rs: the App on any merged stream     *)
\* commands in the merged stream at the start at most (HandleSpec)
MaxCmds == 2

\* the commands the merged stream may hold (HandleSpec)
HandleCmds == {Terminate, IsUp, IsDown, Msg("hello")}
              \cup {KeyPress(c, "Press") : c \in KeyCodes}

\* values of the counter the loop is entered with (HandleSpec): those next
\* to the two ends of u8
CounterStarts == {0, 1, U8Max - 1, U8Max}

\* App::run() is entered: the worker runs, the relay and the forwarding
\* threads wait, the merged stream holds any short sequence of commands and
\* the counter is at one of CounterStarts.
HandleInit ==
    /\ inq = [i \in Inputs |-> <<>>]
    /\ sentHist = [i \in Inputs |-> <<>>]
    /\ sendOrder = <<>>
    /\ open = [i \in Inputs |-> TRUE]
    /\ hold = [i \in Inputs |-> NoCmd]
    /\ fpc = [i \in Inputs |-> "recv"]
    /\ out \in SeqsUpTo(HandleCmds, MaxCmds)
    /\ outRecv = TRUE
    /\ received = <<>>
    /\ closedSeen = FALSE
    /\ wpc = "run"
    /\ pwq = <<>>
    /\ batch = <<>>
    /\ quit = FALSE
    /\ spc = "loop"
    /\ firstObs = IsUp
    /\ spawnRes = <<"Ok", "">>
    /\ rpc = "read"
    /\ nread = 0
    /\ \E c \in CounterStarts : app = [AppInit EXCEPT !.counter = c]
    /\ termSent = 0
    /\ qHandled = FALSE
    /\ lastUpd = "none"

HandleNext ==
    \/ AppUpdate
    \/ AppLoopExit

HandleSpec == HandleInit /\ [][HandleNext]_vars

(* ------------------------------------------ app.rs: the running App loop *)
\* App::run() has been looping for a while: spawn() succeeded, the worker
\* runs, the relay and the forwarding threads wait on empty channels, and the
\* Left/Right presses handled so far have left the counter at one of
\* CounterStarts. The histories start here.
LoopInit ==
    /\ inq = [i \in Inputs |-> <<>>]
    /\ sentHist = [i \in Inputs |-> <<>>]
    /\ sendOrder = <<>>
    /\ open = [i \in Inputs |-> TRUE]
    /\ hold = [i \in Inputs |-> NoCmd]
    /\ fpc = [i \in Inputs |-> "recv"]
    /\ out = <<>>
    /\ outRecv = TRUE
    /\ received = <<>>
    /\ closedSeen = FALSE
    /\ wpc = "run"
    /\ pwq = <<>>
    /\ batch = <<>>
    /\ quit = FALSE
    /\ spc = "loop"
    /\ firstObs = IsUp
    /\ spawnRes = <<"Ok", "">>
    /\ rpc = "read"
    /\ nread = 0
    /\ \E c \in CounterStarts : app = [AppInit EXCEPT !.counter = c]
    /\ termSent = 0
    /\ qHandled = FALSE
    /\ lastUpd = "none"

LoopNext ==
    \/ RelayRead
    \/ RelayReadErr
    \/ \E i \in Inputs : ForwardRecv(i)
    \/ \E i \in Inputs : ForwardSend(i)
    \/ AppUpdate
    \/ AppLoopExit
    \/ WorkerLoopIter
    \/ WorkerCallback
    \/ WorkerRunReturn

\* The running program with the worker's event loop, the forwarding thread
\* of the mailbox and the App loop scheduled again and again.
LoopFairSpec ==
    /\ LoopInit
    /\ [][LoopNext]_vars
    /\ WF_vars(WorkerLoopIter)
    /\ WF_vars(WorkerCallback)
    /\ WF_vars(WorkerRunReturn)
    /\ WF_vars(ForwardRecv(1))
    /\ WF_vars(ForwardSend(1))
    /\ WF_vars(AppUpdate)

(* ================================================================ claims *)
\* the messages of seq that producer i sent
Restrict(seq, i) == SelectSeq(seq, LAMBDA m : m[1] = "Msg" /\ m[2] = ProducerTag(i))

IsPrefix(p, q) == Len(p) <= Len(q) /\ \A k \in 1..Len(p) : p[k] = q[k]

Other(i) == 3 - i

Count(seq, c) == Cardinality({k \in 1..Len(seq) : seq[k] = c})

\* C1: at every moment, what the consumer has received from the merged
\* output, restricted to one producer, is a prefix of what that producer
\* sent, in the same order; every received message was sent by a producer.
C1_PerProducerFifo ==
    /\ \A i \in Inputs : IsPrefix(Restrict(received, i), sentHist[i])
    /\ Len(received) = Len(Restrict(received, 1)) + Len(Restrict(received, 2))

\* C1 witness: two messages of producer 1 were received around one of producer 2.
C1_Witness ==
    received = <<ProducerMsg(1, 1), ProducerMsg(2, 1), ProducerMsg(1, 2)>>

\* C2: spawn() returns Ok exactly when the first thing it observes on the
\* mailbox is IsUp; any other first message, or the closed mailbox, gives
\* an Err value (the calling thread is in no other state).
C2_SpawnOkIffIsUp ==
    spawnRes[1] # "none" =>
        /\ spawnRes[1] \in {"Ok", "Err"}
        /\ (spawnRes[1] = "Ok") <=> (firstObs = IsUp)
        /\ spc \in {"spawnOk", "spawnErr"} => ((spc = "spawnOk") <=> (firstObs = IsUp))

\* C2 witness: a first message other than IsUp was observed and spawn() returned Err.
C2_Witness == spc = "spawnErr" /\ firstObs = Msg("connect failed") /\ spawnRes[1] = "Err"

\* C3 (as claimed): whenever the App's main loop has exited, the worker
\* thread has terminated.
C3_ExitedImpliesWorkerDone == spc = "exited" => wpc = "done"

\* C4 (as claimed): the worker puts at most one IsDown on the mailbox,
\* however many Terminate commands were sent.
C4_OneIsDown == termSent >= 2 => Count(sentHist[1], IsDown) <= 1

\* C5 (as claimed): when the App receives IsDown and the quit action was
\* never handled, the App panics, and neither sets exit nor records a
\* clean-exit message.
C5_UnrequestedDownPanics ==
    [][(received' = Append(received, IsDown) /\ ~qHandled)
         => (spc' = "panicked" /\ ~app'.exit /\ app'.messages = app.messages)]_vars

\* C6: the exit flag becomes true only in a step that takes IsDown from the
\* merged stream, after the App has sent at least one Terminate.
C6_ExitOnlyOnDownAfterTerminate ==
    [][(~app.exit /\ app'.exit)
         => (termSent >= 1 /\ out # <<>> /\ Head(out) = IsDown
             /\ received' = Append(received, IsDown))]_vars

\* C6 witness: the exit flag is set after a Terminate was sent and other keys handled.
C6_Witness == app.exit /\ termSent >= 1 /\ Len(received) >= 3

\* C7: once a command was sent on the control sender, or the merge holds the
\* mailbox receiver, or spawn() has returned Ok, the worker had finished
\* initialization, attached its callback and sent IsUp first.
C7_HandlesOnlyWhenReady ==
    (termSent > 0 \/ pwq # <<>> \/ fpc[1] # "unstarted" \/ spawnRes[1] = "Ok")
        => /\ wpc \in {"run", "done"}
           /\ sentHist[1] # <<>>
           /\ Head(sentHist[1]) = IsUp

\* C7 witness: a Terminate was sent and the merge took a message of the mailbox.
C7_Witness == termSent > 0 /\ hold[1] = IsDown /\ wpc = "run"

\* C8: in what the worker put on its mailbox, IsUp stands first and nowhere
\* else (so at most once, and every IsDown comes after it).
C8_IsUpFirstOnce ==
    \A k \in 1..Len(sentHist[1]) : (sentHist[1][k] = IsUp) <=> (k = 1)

\* C8 witness: the worker has sent IsUp and then IsDown.
C8_Witness == Len(sentHist[1]) >= 2 /\ sentHist[1][2] = IsDown

\* C9: with exactly one Terminate sent and the worker run to completion, the
\* mailbox got exactly IsUp then one IsDown, and it is closed after it.
C9_OneTerminateOneDown ==
    (wpc = "done" /\ termSent = 1) => (sentHist[1] = <<IsUp, IsDown>> /\ ~open[1])

\* C9 witness: one Terminate was sent and the worker thread has finished.
C9_Witness == wpc = "done" /\ termSent = 1

\* C10: once the forwarding thread of one input has exited on exhaustion,
\* and while the consumer holds the merged receiver: as long as the other
\* producer's sender is open the consumer never sees the merged stream
\* disconnected and the other forwarding thread is still running; and when
\* the other thread has exited too, everything the other producer sent has
\* been put on the merged stream and, once that is drained, received.
C10_ExhaustedInputKeepsOutputOpen ==
    \A i \in Inputs :
        (fpc[i] = "done" /\ outRecv) =>
            /\ open[Other(i)] => (~closedSeen /\ ~Disconnected
                                  /\ fpc[Other(i)] \in {"recv", "send"})
            /\ (fpc[Other(i)] = "done" /\ out = <<>>)
                   => Restrict(received, Other(i)) = sentHist[Other(i)]

\* C10 witness: input 1 is exhausted with nothing sent, its thread has exited,
\* and the messages of producer 2, still open, have all been received.
C10_Witness ==
    /\ fpc[1] = "done" /\ open[2] /\ outRecv
    /\ Len(sentHist[2]) >= 2
    /\ received = sentHist[2]

\* the index of message m in seq (messages of the test producers are distinct)
Pos(seq, m) == CHOOSE k \in 1..Len(seq) : seq[k] = m

\* C11 (as claimed): whenever a message b has been received, every message
\* that was sent on the other input before b was sent has been received
\* before b.
C11_SendOrderKeptAcrossProducers ==
    \A kb \in 1..Len(received) :
        \A ka \in 1..(Pos(sendOrder, received[kb]) - 1) :
            sendOrder[ka][2] # received[kb][2]
                => \E j \in 1..(kb - 1) : received[j] = sendOrder[ka]

\* C11 (amended): the merged stream is first-in first-out from the sends of
\* the forwarding threads: a step changes the merged queue only by a
\* forwarding thread appending the item it holds, or by the consumer taking
\* the head, and the consumer receives nothing else.
C11_MergedFifo ==
    [][\/ /\ out' = out
          /\ received' = received
       \/ /\ out # <<>>
          /\ out' = Tail(out)
          /\ received' = Append(received, Head(out))
       \/ /\ \E i \in Inputs : fpc[i] = "send" /\ out' = Append(out, hold[i])
          /\ received' = received]_vars

\* C11 witness: A1 was sent before B1 and B1 was received before A1.
C11_Witness ==
    /\ sendOrder = <<ProducerMsg(1, 1), ProducerMsg(2, 1)>>
    /\ received = <<ProducerMsg(2, 1), ProducerMsg(1, 1)>>

\* the messages of seq that producer i of the N-way merge sent
NetRestrict(seq, i) == SelectSeq(seq, LAMBDA m : m[2] = ToString(i))

RECURSIVE SumLen(_, _)
SumLen(f, S) == IF S = {} THEN 0
                ELSE LET x == CHOOSE y \in S : TRUE IN Len(f[x]) + SumLen(f, S \ {x})

\* every queue is empty and no forwarding thread holds an item
NetQuiet ==
    /\ \A c \in DOMAIN inq : inq[c] = <<>>
    /\ \A c \in DOMAIN fpc : fpc[c] \in {"recv", "done"}

\* C12: for N inputs the merge is N - 1 pairwise merges, each channel but
\* the last read by one of 2(N - 1) forwarding threads, two per merge; what
\* the consumer received from one producer is a prefix of what it sent, in
\* order and without duplicate or foreign message; and once nothing is left
\* in flight, every message sent has been received.
C12_MultiMergeDelivers ==
    /\ Cardinality(NetWires) = 2 * (NetN - 1)
    /\ {w[1] : w \in NetWires} = DOMAIN fpc
    /\ \A d \in {w[2] : w \in NetWires} : Cardinality({w \in NetWires : w[2] = d}) = 2
    /\ \A i \in DOMAIN open : IsPrefix(NetRestrict(received, i), sentHist[i])
    /\ Len(received) <= SumLen(sentHist, DOMAIN open)
    /\ NetQuiet => \A i \in DOMAIN open : NetRestrict(received, i) = sentHist[i]

\* C12 witness: three producers; the first, two merges away from the
\* consumer, sent two messages and another producer one; all were received.
C12_Witness ==
    /\ NetN = 3
    /\ NetQuiet
    /\ Len(sentHist[1]) = 2
    /\ Len(received) = 3

\* C13 (as claimed): handling Right raises the counter by exactly 1 whatever
\* its value, and handling Left lowers it by 1, or leaves it at 0.
C13_CounterSteps ==
    [][/\ received' = Append(received, KeyPress("Right", "Press"))
            => (spc' = "loop" /\ app'.counter = app.counter + 1)
       /\ received' = Append(received, KeyPress("Left", "Press"))
            => (spc' = "loop"
                /\ app'.counter = IF app.counter = 0 THEN 0 ELSE app.counter - 1)]_vars

\* C16: an update() that times out, or that delivers Terminate or IsUp,
\* returns Ok (the loop goes on), leaves every field of the App as it was
\* and sends nothing on the control sender.
C16_QuietUpdateChangesNothing ==
    [][(\/ received' = Append(received, Terminate)
        \/ received' = Append(received, IsUp)
        \/ (lastUpd' = "Timeout" /\ received' = received))
         => (app' = app /\ pwq' = pwq /\ termSent' = termSent /\ spc' = "loop")]_vars

\* C16 witness: Terminate and IsUp were delivered and then an update timed out.
C16_Witness == received = <<Terminate, IsUp>> /\ lastUpd = "Timeout" /\ app.counter = 0

\* C14 (as claimed): when the worker's initialization has failed, what
\* spawn() returns is the Err that carries the initialization error (and
\* the worker thread is not inside the event loop).
C14_SpawnErrCarriesInitError ==
    (wpc = "panicked" /\ spawnRes[1] # "none")
        => (spawnRes = <<"Err", InitError>> /\ batch = <<>> /\ ~quit)

\* every message a test producer can send
ProducerMsgs == {ProducerMsg(i, n) : i \in Inputs, n \in 1..MaxMsgs}

InSeq(m, seq) == \E k \in 1..Len(seq) : seq[k] = m

\* C15: with the forwarding threads scheduled fairly and a consumer that
\* keeps receiving, every message sent on either input is eventually
\* received from the merged output.
C15_EverySentEventuallyReceived ==
    \A m \in ProducerMsgs : InSeq(m, sendOrder) ~> InSeq(m, received)

\* C15 witness: one message was sent on each input and both were received.
C15_Witness ==
    /\ Len(sentHist[1]) = 1 /\ Len(sentHist[2]) = 1
    /\ Len(received) = 2
    /\ InSeq(ProducerMsg(1, 1), received) /\ InSeq(ProducerMsg(2, 1), received)

\* C17: the input relay forwards a KeyPress command only for terminal events
\* of key-press kind: nothing the relay has put on the ui channel comes from
\* a key release or a key repeat (non-key events never make a command).
C17_RelayForwardsOnlyPress ==
    \A k \in 1..Len(sentHist[2]) :
        /\ sentHist[2][k][1] = "KeyPress"
        /\ sentHist[2][k][3] = "Press"

\* C18: once the merged receiver has been dropped, a forwarding thread that
\* holds an item taken from its input leaves the delivery only by panicking:
\* the item is not put on the output and the thread does not go back to
\* receiving.
C18_DeliveryFailsFatally ==
    [][\A i \in Inputs :
         (~outRecv /\ fpc[i] = "send" /\ fpc'[i] # fpc[i])
             => (fpc'[i] = "panicked" /\ out' = out)]_vars

\* C18 witness: a forwarding thread panicked at delivery after the merged
\* receiver was dropped, its producer still holding the sender.
C18_Witness ==
    /\ ~outRecv
    /\ open[1]
    /\ fpc[1] = "panicked"
    /\ Len(sentHist[1]) > Len(Restrict(received, 1))

\* C19: with the merged receiver kept and the threads scheduled fairly, a
\* forwarding thread has returned only when its producer dropped the sender
\* and everything sent on that input was put on the merged channel; a
\* dropped sender leads to the return of its forwarding thread; the consumer
\* sees the merged channel closed only when both threads have returned, and
\* that leads to the consumer seeing it.
C19_ForwardersSelfTerminate ==
    /\ [](\A i \in Inputs :
            fpc[i] = "done" =>
                /\ ~open[i]
                /\ inq[i] = <<>>
                /\ Restrict(received \o out, i) = sentHist[i])
    /\ [](closedSeen => (fpc[1] = "done" /\ fpc[2] = "done"))
    /\ \A i \in Inputs : (~open[i]) ~> (fpc[i] = "done")
    /\ (fpc[1] = "done" /\ fpc[2] = "done") ~> closedSeen

\* C19 witness: both producers sent and dropped, both forwarding threads
\* returned, every message was received and then the closure was seen.
C19_Witness ==
    /\ fpc[1] = "done" /\ fpc[2] = "done"
    /\ closedSeen
    /\ sentHist[1] # <<>> /\ sentHist[2] # <<>>
    /\ Len(received) = Len(sentHist[1]) + Len(sentHist[2])

CleanExit == app.exit /\ InSeq("Pipewire went down properly", app.messages)

\* C20: once the App has handled the quit key, the App eventually handles
\* IsDown: it pushes the clean-exit message and sets exit, whatever else is
\* interleaved.
C20_QuitLeadsToCleanExit == qHandled ~> CleanExit

\* C21: App::update never finds the merged stream disconnected, and while
\* the App loop runs with the exit flag false the merged stream is not
\* disconnected; the merged stream is disconnected only after the relay and
\* the worker have both dropped their senders; and a worker that has
\* returned has put IsDown on the mailbox as its last message.
C21_UpdateNeverSeesDisconnected ==
    /\ lastUpd # "Disconnected"
    /\ (spc = "loop" /\ ~app.exit) => ~Disconnected
    /\ Disconnected => (~open[1] /\ ~open[2])
    /\ wpc = "done" =>
           /\ sentHist[1] # <<>>
           /\ sentHist[1][Len(sentHist[1])] = IsDown

\* C21 witness: the worker returned after a Terminate and the relay ended,
\* both forwarding threads returned and the merged stream is empty and
\* closed, but the App had handled IsDown before and left the loop's
\* condition false.
C21_Witness ==
    /\ Disconnected
    /\ wpc = "done" /\ rpc = "done"
    /\ spc = "loop" /\ app.exit
    /\ received # <<>> /\ received[Len(received)] = IsDown
    /\ lastUpd = "Cmd"

====
